---- MODULE Spec2Model ----
(***************************************************************************)
(* Swapchain capability negotiation and lifecycle                          *)
(* (framework/core/swapchain.cpp) and the memory-type lookup of            *)
(* PhysicalDevice (framework/core/physical_device.cpp).                    *)
(*                                                                         *)
(* 32-bit unsigned quantities are naturals.  Flag masks are naturals whose *)
(* binary digits are the flag bits; BitAnd is the C operator &.            *)
(***************************************************************************)
EXTENDS Integers, Sequences, FiniteSets

VARIABLES
    call,       \* the last call of a negotiation function: arguments and result
    device,     \* the logical device: enabled extension, format features of its gpu
    caps,       \* what the surface reports now: capabilities, formats, present modes
    chains,     \* the Swapchain objects, by identity
    native,     \* the driver's swapchains, by handle
    last        \* the last operation on the Swapchain class and its outcome

vars == <<call, device, caps, chains, native, last>>
chainVars == <<device, caps, chains, native, last>>

(***************************************************************************)
(* Bounds of the model.                                                    *)
(***************************************************************************)
MaxCapCount == 3        \* reported min/max image counts range over 0..MaxCapCount
MaxRequestCount == 10   \* requested image counts range over 0..MaxRequestCount
MaxExtent == 2          \* reported extents range over 0..MaxExtent per dimension
MaxListLen == 2         \* longest present-mode / surface-format list
MaxChains == 2          \* Swapchain objects a run constructs
MaxMemoryTypes == 3     \* entries of the memoryTypes array; memoryTypeCount is at most this

(***************************************************************************)
(* Values of the Vulkan enumerations the code names.                       *)
(***************************************************************************)
\* 0xFFFFFFFF, the all-ones width of an undefined current extent; TLC's
\* integers end at 2^31 - 1, which stands for it (it is only compared).
UINT32_MAX == 2147483647

VK_NULL_HANDLE == 0

VK_PRESENT_MODE_IMMEDIATE_KHR == 0
VK_PRESENT_MODE_MAILBOX_KHR == 1
VK_PRESENT_MODE_FIFO_KHR == 2

VK_COMPOSITE_ALPHA_OPAQUE_BIT_KHR == 1
VK_COMPOSITE_ALPHA_PRE_MULTIPLIED_BIT_KHR == 2
VK_COMPOSITE_ALPHA_POST_MULTIPLIED_BIT_KHR == 4
VK_COMPOSITE_ALPHA_INHERIT_BIT_KHR == 8

VK_IMAGE_USAGE_TRANSFER_DST_BIT == 2
VK_IMAGE_USAGE_SAMPLED_BIT == 4
VK_IMAGE_USAGE_STORAGE_BIT == 8
VK_IMAGE_USAGE_COLOR_ATTACHMENT_BIT == 16

VK_FORMAT_FEATURE_STORAGE_IMAGE_BIT == 2

VK_SURFACE_TRANSFORM_IDENTITY_BIT_KHR == 1
VK_SURFACE_TRANSFORM_ROTATE_90_BIT_KHR == 2

VK_IMAGE_COMPRESSION_DEFAULT_EXT == 0
VK_IMAGE_COMPRESSION_FIXED_RATE_EXPLICIT_EXT == 2
VK_IMAGE_COMPRESSION_DISABLED_EXT == 4
VK_IMAGE_COMPRESSION_FIXED_RATE_NONE_EXT == 0

VK_SUCCESS == 0

(***************************************************************************)
(* Helpers: the C++ operators and library calls the code uses.             *)
(***************************************************************************)
Min(a, b) == IF a < b THEN a ELSE b      \* std::min
Max(a, b) == IF a < b THEN b ELSE a      \* std::max

RECURSIVE BitAnd(_, _)
\* a & b on unsigned integers
BitAnd(a, b) ==
    IF a = 0 \/ b = 0 THEN 0
    ELSE 2 * BitAnd(a \div 2, b \div 2) + (IF a % 2 = 1 /\ b % 2 = 1 THEN 1 ELSE 0)

RECURSIVE BitOrSet(_)
\* the bitwise OR of a set of flag bits
BitOrSet(S) ==
    IF S = {} THEN 0
    ELSE LET f == CHOOSE x \in S : TRUE
             r == BitOrSet(S \ {f})
         IN  r + f - BitAnd(r, f)

RECURSIVE FindFrom(_, _, _)
FindFrom(list, x, i) ==
    IF i > Len(list) THEN i
    ELSE IF list[i] = x THEN i
    ELSE FindFrom(list, x, i + 1)

\* std::ranges::find: the index of the first element equal to x, Len(list) + 1 for end()
Find(list, x) == FindFrom(list, x, 1)

Range(list) == {list[i] : i \in 1..Len(list)}

\* all sequences over S of length at most n
RECURSIVE ListsUpTo(_, _)
ListsUpTo(S, n) ==
    IF n = 0 THEN {<<>>}
    ELSE LET shorter == ListsUpTo(S, n - 1)
         IN  shorter \cup {Append(l, x) : l \in {s \in shorter : Len(s) = n - 1}, x \in S}

(***************************************************************************)
(* The negotiation functions.                                              *)
(***************************************************************************)
choose_image_count_no_upper(request_image_count, min_image_count, max_image_count) ==
    Max(request_image_count, min_image_count)

choose_image_count(request_image_count, min_image_count, max_image_count) ==
    LET r1 == IF max_image_count # 0
              THEN Min(request_image_count, max_image_count)
              ELSE request_image_count
    IN  Max(r1, min_image_count)

choose_image_array_layers(request_image_array_layers, max_image_array_layers) ==
    Max(Min(request_image_array_layers, max_image_array_layers), 1)

choose_extent_no_min(request_extent, min_image_extent, max_image_extent, current_extent) ==
    IF current_extent.width = UINT32_MAX THEN request_extent
    ELSE IF request_extent.width < 1 \/ request_extent.height < 1 THEN current_extent
    ELSE [width  |-> Min(request_extent.width, max_image_extent.width),
          height |-> Min(request_extent.height, max_image_extent.height)]

choose_extent(request_extent, min_image_extent, max_image_extent, current_extent) ==
    IF current_extent.width = UINT32_MAX THEN request_extent
    ELSE IF request_extent.width < 1 \/ request_extent.height < 1 THEN current_extent
    ELSE [width  |-> Min(Max(request_extent.width, min_image_extent.width),
                         max_image_extent.width),
          height |-> Min(Max(request_extent.height, min_image_extent.height),
                         max_image_extent.height)]

RECURSIVE PresentModeLoop(_, _, _)
\* the loop over present_mode_priority_list, from its i-th entry on
PresentModeLoop(available_present_modes, present_mode_priority_list, i) ==
    IF i > Len(present_mode_priority_list) THEN VK_PRESENT_MODE_FIFO_KHR
    ELSE IF Find(available_present_modes, present_mode_priority_list[i])
                # Len(available_present_modes) + 1
         THEN present_mode_priority_list[i]
         ELSE PresentModeLoop(available_present_modes, present_mode_priority_list, i + 1)

choose_present_mode_last_match(request_present_mode, available_present_modes, present_mode_priority_list) ==
    LET hits == {i \in 1..Len(present_mode_priority_list) :
                    present_mode_priority_list[i] \in Range(available_present_modes)}
    IN  IF request_present_mode \in Range(available_present_modes)
        THEN request_present_mode
        ELSE IF hits = {} THEN VK_PRESENT_MODE_FIFO_KHR
        ELSE present_mode_priority_list[CHOOSE i \in hits : \A j \in hits : j <= i]

choose_present_mode(request_present_mode, available_present_modes, present_mode_priority_list) ==
    LET present_mode_it == Find(available_present_modes, request_present_mode)
    IN  IF present_mode_it = Len(available_present_modes) + 1
        THEN PresentModeLoop(available_present_modes, present_mode_priority_list, 1)
        ELSE available_present_modes[present_mode_it]

RECURSIVE FindFormatFrom(_, _, _)
FindFormatFrom(available_surface_formats, wanted, i) ==
    IF i > Len(available_surface_formats) THEN i
    ELSE IF available_surface_formats[i].format = wanted.format
            /\ available_surface_formats[i].colorSpace = wanted.colorSpace THEN i
    ELSE FindFormatFrom(available_surface_formats, wanted, i + 1)

\* std::ranges::find_if with the (format, colorSpace) predicate
FindFormat(available_surface_formats, wanted) ==
    FindFormatFrom(available_surface_formats, wanted, 1)

RECURSIVE SurfaceFormatLoop(_, _, _)
\* the loop over surface_format_priority_list, from its i-th entry on; the code
\* dereferences begin() when the loop ends, so the available list is not empty
SurfaceFormatLoop(available_surface_formats, surface_format_priority_list, i) ==
    IF i > Len(surface_format_priority_list) THEN available_surface_formats[1]
    ELSE LET it == FindFormat(available_surface_formats, surface_format_priority_list[i])
         IN  IF it # Len(available_surface_formats) + 1
             THEN available_surface_formats[it]
             ELSE SurfaceFormatLoop(available_surface_formats,
                                    surface_format_priority_list, i + 1)

RECURSIVE FindFormatOnlyFrom(_, _, _)
FindFormatOnlyFrom(available_surface_formats, wanted, i) ==
    IF i > Len(available_surface_formats) THEN i
    ELSE IF available_surface_formats[i].format = wanted.format THEN i
    ELSE FindFormatOnlyFrom(available_surface_formats, wanted, i + 1)

RECURSIVE SurfaceFormatLoopFormatOnly(_, _, _)
SurfaceFormatLoopFormatOnly(available_surface_formats, surface_format_priority_list, i) ==
    IF i > Len(surface_format_priority_list) THEN available_surface_formats[1]
    ELSE LET it == FindFormatOnlyFrom(available_surface_formats,
                                      surface_format_priority_list[i], 1)
         IN  IF it # Len(available_surface_formats) + 1
             THEN available_surface_formats[it]
             ELSE SurfaceFormatLoopFormatOnly(available_surface_formats,
                                              surface_format_priority_list, i + 1)

choose_surface_format_format_only(requested_surface_format, available_surface_formats, surface_format_priority_list) ==
    LET surface_format_it == FindFormatOnlyFrom(available_surface_formats,
                                                requested_surface_format, 1)
    IN  IF surface_format_it = Len(available_surface_formats) + 1
        THEN SurfaceFormatLoopFormatOnly(available_surface_formats,
                                         surface_format_priority_list, 1)
        ELSE available_surface_formats[surface_format_it]

choose_surface_format(requested_surface_format, available_surface_formats, surface_format_priority_list) ==
    LET surface_format_it == FindFormat(available_surface_formats, requested_surface_format)
    IN  IF surface_format_it = Len(available_surface_formats) + 1
        THEN SurfaceFormatLoop(available_surface_formats, surface_format_priority_list, 1)
        ELSE available_surface_formats[surface_format_it]

choose_transform(request_transform, supported_transform, current_transform) ==
    IF BitAnd(request_transform, supported_transform) # 0
    THEN request_transform
    ELSE current_transform

\* the fixed order of choose_composite_alpha
composite_alpha_flags ==
    <<VK_COMPOSITE_ALPHA_OPAQUE_BIT_KHR,
      VK_COMPOSITE_ALPHA_PRE_MULTIPLIED_BIT_KHR,
      VK_COMPOSITE_ALPHA_POST_MULTIPLIED_BIT_KHR,
      VK_COMPOSITE_ALPHA_INHERIT_BIT_KHR>>

RECURSIVE CompositeAlphaLoop(_, _)
\* the loop over composite_alpha_flags from its i-th entry on; the throw at its end
\* is the result [thrown |-> TRUE]
CompositeAlphaLoop(supported_composite_alpha, i) ==
    IF i > Len(composite_alpha_flags) THEN [thrown |-> TRUE, value |-> 0]
    ELSE IF BitAnd(composite_alpha_flags[i], supported_composite_alpha) # 0
         THEN [thrown |-> FALSE, value |-> composite_alpha_flags[i]]
         ELSE CompositeAlphaLoop(supported_composite_alpha, i + 1)

choose_composite_alpha_ignore_request(request_composite_alpha, supported_composite_alpha) ==
    CompositeAlphaLoop(supported_composite_alpha, 1)

choose_composite_alpha_as_requested(request_composite_alpha, supported_composite_alpha) ==
    [thrown |-> FALSE, value |-> request_composite_alpha]

choose_composite_alpha(request_composite_alpha, supported_composite_alpha) ==
    IF BitAnd(request_composite_alpha, supported_composite_alpha) # 0
    THEN [thrown |-> FALSE, value |-> request_composite_alpha]
    ELSE CompositeAlphaLoop(supported_composite_alpha, 1)

validate_format_feature(image_usage, supported_features) ==
    IF image_usage = VK_IMAGE_USAGE_STORAGE_BIT
    THEN BitAnd(VK_FORMAT_FEATURE_STORAGE_IMAGE_BIT, supported_features) # 0
    ELSE TRUE

\* the fixed default order of choose_image_usage
image_usage_flags_defaults ==
    <<VK_IMAGE_USAGE_COLOR_ATTACHMENT_BIT,
      VK_IMAGE_USAGE_STORAGE_BIT,
      VK_IMAGE_USAGE_SAMPLED_BIT,
      VK_IMAGE_USAGE_TRANSFER_DST_BIT>>

RECURSIVE ImageUsageLoop(_, _, _)
\* the loop over the defaults from the i-th entry on: the set holding the first that passes
ImageUsageLoop(supported_image_usage, supported_features, i) ==
    IF i > Len(image_usage_flags_defaults) THEN {}
    ELSE IF BitAnd(image_usage_flags_defaults[i], supported_image_usage) # 0
            /\ validate_format_feature(image_usage_flags_defaults[i], supported_features)
         THEN {image_usage_flags_defaults[i]}
         ELSE ImageUsageLoop(supported_image_usage, supported_features, i + 1)

choose_image_usage_no_feature_check(requested_image_usage_flags, supported_image_usage, supported_features) ==
    LET validated == {flag \in requested_image_usage_flags :
                         BitAnd(flag, supported_image_usage) # 0}
        flags == IF validated = {}
                 THEN ImageUsageLoop(supported_image_usage, supported_features, 1)
                 ELSE validated
    IN  [thrown |-> flags = {}, value |-> flags]

\* the validated set, or [thrown |-> TRUE] for the std::runtime_error
choose_image_usage(requested_image_usage_flags, supported_image_usage, supported_features) ==
    LET validated == {flag \in requested_image_usage_flags :
                         BitAnd(flag, supported_image_usage) # 0
                         /\ validate_format_feature(flag, supported_features)}
        flags == IF validated = {}
                 THEN ImageUsageLoop(supported_image_usage, supported_features, 1)
                 ELSE validated
    IN  [thrown |-> flags = {}, value |-> flags]

composite_image_flags(image_usage_flags) == BitOrSet(image_usage_flags)

(***************************************************************************)
(* Inputs of the negotiation functions.  A reported range is a range:      *)
(* VkSurfaceCapabilitiesKHR gives maxImageCount as 0 or at least           *)
(* minImageCount, minImageExtent <= maxImageExtent, and a current extent   *)
(* that is either the undefined value in both dimensions or lies between   *)
(* them.  Which modes, formats, transforms and flags are supported is      *)
(* unconstrained.                                                          *)
(***************************************************************************)
CountRanges ==
    {r \in [min : 0..MaxCapCount, max : 0..MaxCapCount] : r.max = 0 \/ r.min <= r.max}

Extents(S) == [width : S, height : S]

UndefinedExtent == [width |-> UINT32_MAX, height |-> UINT32_MAX]

ExtentCaps ==
    {e \in [min : Extents(0..MaxExtent), max : Extents(0..MaxExtent),
            current : Extents(0..MaxExtent) \cup {UndefinedExtent}] :
        /\ e.min.width <= e.max.width
        /\ e.min.height <= e.max.height
        /\ e.current # UndefinedExtent =>
              /\ e.min.width <= e.current.width /\ e.current.width <= e.max.width
              /\ e.min.height <= e.current.height /\ e.current.height <= e.max.height}

RequestExtents == Extents(0..(MaxExtent + 1) \cup {UINT32_MAX})

PresentModes ==
    {VK_PRESENT_MODE_IMMEDIATE_KHR, VK_PRESENT_MODE_MAILBOX_KHR, VK_PRESENT_MODE_FIFO_KHR}

PresentModeLists == ListsUpTo(PresentModes, MaxListLen)

\* (format, colorSpace) pairs: VK_FORMAT_UNDEFINED and VK_FORMAT_B8G8R8A8_SRGB in
\* VK_COLOR_SPACE_SRGB_NONLINEAR_KHR and one other colour space
SurfaceFormats == [format : {0, 50}, colorSpace : {0, 1}]

SurfaceFormatLists == ListsUpTo(SurfaceFormats, MaxListLen)

(***************************************************************************)
(* The device, the surface and the driver.                                 *)
(***************************************************************************)
\* the one VkSurfaceKHR of the model
TheSurface == 1

\* vkGetPhysicalDeviceFormatProperties(...).optimalTilingFeatures per format, and
\* is_extension_enabled(VK_EXT_IMAGE_COMPRESSION_CONTROL_SWAPCHAIN_EXTENSION_NAME)
Devices ==
    {[compression_control |-> TRUE,
      optimalTilingFeatures |-> [f \in {0, 50} |-> IF f = 50
                                                  THEN VK_FORMAT_FEATURE_STORAGE_IMAGE_BIT
                                                  ELSE 0]],
     [compression_control |-> FALSE,
      optimalTilingFeatures |-> [f \in {0, 50} |-> 0]]}

Extent(w, h) == [width |-> w, height |-> h]

\* a surface as the driver may report it, and the same surface with one of its
\* properties reported differently
BaseCaps ==
    [minImageCount |-> 2, maxImageCount |-> 3,
     minImageExtent |-> Extent(1, 1), maxImageExtent |-> Extent(2, 2),
     currentExtent |-> Extent(1, 1),
     maxImageArrayLayers |-> 1,
     supportedTransforms |-> 3, currentTransform |-> VK_SURFACE_TRANSFORM_IDENTITY_BIT_KHR,
     supportedCompositeAlpha |-> 9,
     supportedUsageFlags |-> 26,
     surface_formats |-> <<[format |-> 50, colorSpace |-> 1], [format |-> 50, colorSpace |-> 0]>>,
     present_modes |-> <<VK_PRESENT_MODE_FIFO_KHR, VK_PRESENT_MODE_MAILBOX_KHR>>]

\* what a resize, a rotation or a new image-count limit changes
DynamicCaps(cp) ==
    <<cp.minImageCount, cp.maxImageCount, cp.minImageExtent, cp.maxImageExtent,
      cp.currentExtent, cp.supportedTransforms, cp.currentTransform>>

\* what stays while the surface is resized or rotated
StaticCaps(cp) ==
    <<cp.maxImageArrayLayers, cp.supportedCompositeAlpha, cp.supportedUsageFlags,
      cp.surface_formats, cp.present_modes>>

CapsSet ==
    {BaseCaps,
     [BaseCaps EXCEPT !.minImageCount = 1, !.maxImageCount = 0,
                      !.currentExtent = UndefinedExtent],
     [BaseCaps EXCEPT !.minImageExtent = Extent(2, 2), !.currentExtent = Extent(2, 2),
                      !.supportedTransforms = 2],
     [BaseCaps EXCEPT !.supportedCompositeAlpha = 4],
     [BaseCaps EXCEPT !.supportedCompositeAlpha = 0],
     [BaseCaps EXCEPT !.supportedUsageFlags = 8],
     [BaseCaps EXCEPT !.supportedUsageFlags = 6],
     [BaseCaps EXCEPT !.supportedUsageFlags = 0],
     [BaseCaps EXCEPT !.surface_formats = <<[format |-> 0, colorSpace |-> 0],
                                            [format |-> 50, colorSpace |-> 0]>>],
     [BaseCaps EXCEPT !.present_modes = <<VK_PRESENT_MODE_IMMEDIATE_KHR>>],
     [BaseCaps EXCEPT !.present_modes = <<>>]}

VK_ERROR_OUT_OF_DEVICE_MEMORY == -2
VK_ERROR_NATIVE_WINDOW_IN_USE_KHR == -1000000001

\* imageCompressionFixedRateFlags the driver may report as applied: none, 1BPC, 2BPC
AppliedFixedRates == {VK_IMAGE_COMPRESSION_FIXED_RATE_NONE_EXT, 1, 2}

\* the handles the driver gives out, none twice, and the places a Swapchain object
\* can be in: the place of a destroyed object is free for another one
Handles == 1..MaxChains
ChainIds == 1..MaxChains

\* vkCreateSwapchainKHR can succeed: oldSwapchain is null and the surface has no
\* swapchain that is not retired, or oldSwapchain is the surface's swapchain
SurfaceFree(old_handle) ==
    IF old_handle = VK_NULL_HANDLE
    THEN \A h \in Handles : native[h].status # "current"
    ELSE native[old_handle].status = "current"

\* what the driver may answer to the calls of one construction: the result of
\* vkCreateSwapchainKHR and the fixed-rate flags query_applied_compression reports
DriverAnswers(old_handle, dev, requested_compression) ==
    IF SurfaceFree(old_handle)
    THEN {[result |-> VK_SUCCESS, applied_fixed_rate |-> f] :
             f \in IF dev.compression_control
                      /\ requested_compression = VK_IMAGE_COMPRESSION_FIXED_RATE_EXPLICIT_EXT
                   THEN AppliedFixedRates
                   ELSE {VK_IMAGE_COMPRESSION_FIXED_RATE_NONE_EXT}}
         \cup {[result |-> VK_ERROR_OUT_OF_DEVICE_MEMORY,
                applied_fixed_rate |-> VK_IMAGE_COMPRESSION_FIXED_RATE_NONE_EXT]}
    ELSE {[result |-> VK_ERROR_NATIVE_WINDOW_IN_USE_KHR,
           applied_fixed_rate |-> VK_IMAGE_COMPRESSION_FIXED_RATE_NONE_EXT]}

(***************************************************************************)
(* The Swapchain class.                                                    *)
(***************************************************************************)
\* a value-initialised SwapchainProperties
DefaultProperties ==
    [old_swapchain |-> VK_NULL_HANDLE, image_count |-> 0, extent |-> Extent(0, 0),
     surface_format |-> [format |-> 0, colorSpace |-> 0], array_layers |-> 0,
     image_usage |-> 0, pre_transform |-> 0, composite_alpha |-> 0,
     present_mode |-> 0]

\* the members of a Swapchain before a constructor body assigns them, and the
\* default arguments of the constructor that takes a predecessor
DefaultMembers ==
    [handle |-> VK_NULL_HANDLE,
     properties |-> DefaultProperties,
     requested_compression |-> VK_IMAGE_COMPRESSION_DEFAULT_EXT,
     requested_compression_fixed_rate |-> VK_IMAGE_COMPRESSION_FIXED_RATE_NONE_EXT]

NoChain ==
    [state |-> "none", surface |-> VK_NULL_HANDLE, handle |-> VK_NULL_HANDLE,
     images |-> <<>>, properties |-> DefaultProperties,
     present_mode_priority_list |-> <<>>, surface_format_priority_list |-> <<>>,
     image_usage_flags |-> {},
     requested_compression |-> VK_IMAGE_COMPRESSION_DEFAULT_EXT,
     requested_compression_fixed_rate |-> VK_IMAGE_COMPRESSION_FIXED_RATE_NONE_EXT]

\* vkGetSwapchainImagesKHR: the images of swapchain h
ImagesOf(h, n) == [i \in 1..n |-> [swapchain |-> h, index |-> i]]

\* the compression part of the creation descriptor (create_info.pNext)
CompressionControl(dev, requested_compression, requested_compression_fixed_rate) ==
    IF dev.compression_control
    THEN [attached |-> TRUE, flags |-> requested_compression,
          compressionControlPlaneCount |->
              IF requested_compression = VK_IMAGE_COMPRESSION_FIXED_RATE_EXPLICIT_EXT
              THEN 1 ELSE 0,
          fixedRateFlags |->
              IF requested_compression = VK_IMAGE_COMPRESSION_FIXED_RATE_EXPLICIT_EXT
              THEN requested_compression_fixed_rate
              ELSE VK_IMAGE_COMPRESSION_FIXED_RATE_NONE_EXT]
    ELSE [attached |-> FALSE, flags |-> 0, compressionControlPlaneCount |-> 0,
          fixedRateFlags |-> 0]

StoredCompression_keep_request(dev, requested_compression, requested_compression_fixed_rate, applied) ==
    [mode |-> requested_compression, fixed_rate |-> requested_compression_fixed_rate]

StoredCompression_mode_kept(dev, requested_compression, requested_compression_fixed_rate, applied) ==
    IF ~dev.compression_control
    THEN IF requested_compression # VK_IMAGE_COMPRESSION_DEFAULT_EXT
         THEN [mode |-> VK_IMAGE_COMPRESSION_DEFAULT_EXT,
               fixed_rate |-> VK_IMAGE_COMPRESSION_FIXED_RATE_NONE_EXT]
         ELSE [mode |-> requested_compression, fixed_rate |-> requested_compression_fixed_rate]
    ELSE IF requested_compression = VK_IMAGE_COMPRESSION_FIXED_RATE_EXPLICIT_EXT
         THEN [mode |-> requested_compression, fixed_rate |-> applied]
         ELSE [mode |-> requested_compression, fixed_rate |-> requested_compression_fixed_rate]

\* the requested compression a chain stores once its constructor has run: downgraded
\* without the extension, corrected to what the driver applied with it
StoredCompression(dev, requested_compression, requested_compression_fixed_rate, applied) ==
    IF ~dev.compression_control
    THEN IF requested_compression # VK_IMAGE_COMPRESSION_DEFAULT_EXT
         THEN [mode |-> VK_IMAGE_COMPRESSION_DEFAULT_EXT,
               fixed_rate |-> VK_IMAGE_COMPRESSION_FIXED_RATE_NONE_EXT]
         ELSE [mode |-> requested_compression, fixed_rate |-> requested_compression_fixed_rate]
    ELSE IF requested_compression = VK_IMAGE_COMPRESSION_FIXED_RATE_EXPLICIT_EXT
            /\ applied # requested_compression_fixed_rate
         THEN [mode |-> IF applied = VK_IMAGE_COMPRESSION_FIXED_RATE_NONE_EXT
                        THEN VK_IMAGE_COMPRESSION_DEFAULT_EXT
                        ELSE requested_compression,
               fixed_rate |-> applied]
         ELSE [mode |-> requested_compression, fixed_rate |-> requested_compression_fixed_rate]

\* query_applied_compression is called on images[0]
QueriesAppliedCompression(dev, requested_compression) ==
    dev.compression_control
    /\ requested_compression = VK_IMAGE_COMPRESSION_FIXED_RATE_EXPLICIT_EXT

ResolveFirst_no_hint(old_handle, a, cp) ==
    [old_swapchain |-> VK_NULL_HANDLE,
     image_count |-> choose_image_count(a.image_count, cp.minImageCount, cp.maxImageCount),
     extent |-> choose_extent(a.extent, cp.minImageExtent, cp.maxImageExtent,
                              cp.currentExtent),
     surface_format |-> choose_surface_format(DefaultMembers.properties.surface_format,
                                              cp.surface_formats,
                                              a.surface_format_priority_list),
     array_layers |-> choose_image_array_layers(1, cp.maxImageArrayLayers)]

\* the properties the constructor resolves before choose_image_usage
ResolveFirst(old_handle, a, cp) ==
    [old_swapchain |-> old_handle,
     image_count |-> choose_image_count(a.image_count, cp.minImageCount, cp.maxImageCount),
     extent |-> choose_extent(a.extent, cp.minImageExtent, cp.maxImageExtent,
                              cp.currentExtent),
     surface_format |-> choose_surface_format(DefaultMembers.properties.surface_format,
                                              cp.surface_formats,
                                              a.surface_format_priority_list),
     array_layers |-> choose_image_array_layers(1, cp.maxImageArrayLayers)]

\* the creation descriptor assembled from the resolved properties
CreateInfo(properties, dev, a) ==
    [minImageCount |-> properties.image_count,
     imageExtent |-> properties.extent,
     presentMode |-> properties.present_mode,
     imageFormat |-> properties.surface_format.format,
     imageColorSpace |-> properties.surface_format.colorSpace,
     imageArrayLayers |-> properties.array_layers,
     imageUsage |-> properties.image_usage,
     preTransform |-> properties.pre_transform,
     compositeAlpha |-> properties.composite_alpha,
     oldSwapchain |-> properties.old_swapchain,
     surface |-> TheSurface,
     pNext |-> CompressionControl(dev, a.requested_compression,
                                  a.requested_compression_fixed_rate)]

Create_result_unchecked(self, a, dev, drv, properties, image_usage_flags, create_info, stored) ==
    [outcome |-> "ready", create_info |-> create_info,
          surface_format |-> properties.surface_format,
          error |-> [type |-> "none", result |-> VK_SUCCESS],
          chain |-> [state |-> "alive",
                     surface |-> TheSurface,
                     handle |-> self,
                     images |-> ImagesOf(self, properties.image_count),
                     properties |-> properties,
                     present_mode_priority_list |-> a.present_mode_priority_list,
                     surface_format_priority_list |-> a.surface_format_priority_list,
                     image_usage_flags |-> image_usage_flags,
                     requested_compression |-> stored.mode,
                     requested_compression_fixed_rate |-> stored.fixed_rate],
          calls |-> [create_calls |-> 1,
                     query_calls |-> IF QueriesAppliedCompression(dev, a.requested_compression)
                                     THEN 1 ELSE 0,
                     result |-> drv.result]]

\* the end of the constructor: the creation call, the images, the compression check
Create(self, a, dev, drv, properties, image_usage_flags, create_info, stored) ==
    IF drv.result # VK_SUCCESS
    THEN [outcome |-> "create_failed", create_info |-> create_info,
          surface_format |-> properties.surface_format,
          error |-> [type |-> "VulkanException", result |-> drv.result],
          calls |-> [create_calls |-> 1, query_calls |-> 0, result |-> drv.result]]
    ELSE [outcome |-> "ready", create_info |-> create_info,
          surface_format |-> properties.surface_format,
          error |-> [type |-> "none", result |-> VK_SUCCESS],
          chain |-> [state |-> "alive",
                     surface |-> TheSurface,
                     handle |-> self,
                     images |-> ImagesOf(self, properties.image_count),
                     properties |-> properties,
                     present_mode_priority_list |-> a.present_mode_priority_list,
                     surface_format_priority_list |-> a.surface_format_priority_list,
                     image_usage_flags |-> image_usage_flags,
                     requested_compression |-> stored.mode,
                     requested_compression_fixed_rate |-> stored.fixed_rate],
          calls |-> [create_calls |-> 1,
                     query_calls |-> IF QueriesAppliedCompression(dev, a.requested_compression)
                                     THEN 1 ELSE 0,
                     result |-> drv.result]]

\* the properties resolved from choose_image_usage on
ResolveRest(p1, usage, alpha, a, cp) ==
    [old_swapchain |-> p1.old_swapchain,
     image_count |-> p1.image_count,
     extent |-> p1.extent,
     surface_format |-> p1.surface_format,
     array_layers |-> p1.array_layers,
     image_usage |-> composite_image_flags(usage.value),
     pre_transform |-> choose_transform(a.transform, cp.supportedTransforms,
                                        cp.currentTransform),
     composite_alpha |-> alpha.value,
     present_mode |-> choose_present_mode(a.present_mode, cp.present_modes,
                                          a.present_mode_priority_list)]

\* the constructor once image usage and composite alpha are chosen: either throws
Negotiated(self, a, cp, dev, drv, p1, usage, alpha, properties) ==
    IF usage.thrown
    THEN [outcome |-> "no_image_usage", surface_format |-> p1.surface_format,
          error |-> [type |-> "std::runtime_error", result |-> VK_SUCCESS],
          calls |-> [create_calls |-> 0, query_calls |-> 0, result |-> VK_SUCCESS]]
    ELSE IF alpha.thrown
    THEN [outcome |-> "no_composite_alpha", surface_format |-> p1.surface_format,
          error |-> [type |-> "std::runtime_error", result |-> VK_SUCCESS],
          calls |-> [create_calls |-> 0, query_calls |-> 0, result |-> VK_SUCCESS]]
    ELSE Create(self, a, dev, drv, properties, usage.value,
                CreateInfo(properties, dev, a),
                StoredCompression(dev, a.requested_compression,
                                  a.requested_compression_fixed_rate,
                                  drv.applied_fixed_rate))

\* the constructor from choose_image_usage on, p1 being resolved
Negotiate(self, a, cp, dev, drv, p1, usage, alpha) ==
    Negotiated(self, a, cp, dev, drv, p1, usage, alpha,
               ResolveRest(p1, usage, alpha, a, cp))

\* the constructor that takes a predecessor, run with the arguments a on a surface
\* reporting cp; drv is what the driver answers and self the handle it writes when it
\* creates a swapchain.  The result is the outcome, the object built and the calls made
\* on the driver.
ConstructFrom(self, a, cp, dev, drv, p1) ==
    Negotiate(self, a, cp, dev, drv, p1,
              choose_image_usage(a.image_usage_flags, cp.supportedUsageFlags,
                                 dev.optimalTilingFeatures[p1.surface_format.format]),
              choose_composite_alpha(VK_COMPOSITE_ALPHA_INHERIT_BIT_KHR,
                                     cp.supportedCompositeAlpha))

Construct(self, old_handle, a, cp, dev, drv) ==
    ConstructFrom(self, a, cp, dev, drv, ResolveFirst(old_handle, a, cp))

(***************************************************************************)
(* What callers pass.                                                      *)
(***************************************************************************)
BasePreferences ==
    [present_mode |-> VK_PRESENT_MODE_FIFO_KHR,
     present_mode_priority_list |-> <<VK_PRESENT_MODE_MAILBOX_KHR, VK_PRESENT_MODE_FIFO_KHR>>,
     surface_format_priority_list |-> <<[format |-> 50, colorSpace |-> 0]>>,
     extent |-> Extent(1, 1),
     image_count |-> 3,
     transform |-> VK_SURFACE_TRANSFORM_IDENTITY_BIT_KHR,
     image_usage_flags |-> {VK_IMAGE_USAGE_COLOR_ATTACHMENT_BIT},
     requested_compression |-> VK_IMAGE_COMPRESSION_DEFAULT_EXT,
     requested_compression_fixed_rate |-> VK_IMAGE_COMPRESSION_FIXED_RATE_NONE_EXT]

RequestedCompressions ==
    {[mode |-> VK_IMAGE_COMPRESSION_FIXED_RATE_EXPLICIT_EXT, fixed_rate |-> 1],
     [mode |-> VK_IMAGE_COMPRESSION_FIXED_RATE_EXPLICIT_EXT,
      fixed_rate |-> VK_IMAGE_COMPRESSION_FIXED_RATE_NONE_EXT],
     [mode |-> VK_IMAGE_COMPRESSION_DISABLED_EXT,
      fixed_rate |-> VK_IMAGE_COMPRESSION_FIXED_RATE_NONE_EXT]}

RequestedUsages ==
    {{VK_IMAGE_USAGE_STORAGE_BIT, VK_IMAGE_USAGE_COLOR_ATTACHMENT_BIT}}

\* the arguments of a construction
PreferencesSet ==
    {BasePreferences,
     [BasePreferences EXCEPT
         !.present_mode = VK_PRESENT_MODE_IMMEDIATE_KHR,
         !.extent = Extent(0, 0),
         !.image_count = 10,
         !.transform = VK_SURFACE_TRANSFORM_ROTATE_90_BIT_KHR,
         !.image_usage_flags = {VK_IMAGE_USAGE_STORAGE_BIT,
                                VK_IMAGE_USAGE_COLOR_ATTACHMENT_BIT},
         !.requested_compression = VK_IMAGE_COMPRESSION_FIXED_RATE_EXPLICIT_EXT,
         !.requested_compression_fixed_rate = 1],
     [BasePreferences EXCEPT
         !.present_mode = VK_PRESENT_MODE_IMMEDIATE_KHR,
         !.present_mode_priority_list = <<>>,
         !.surface_format_priority_list = <<>>,
         !.extent = Extent(3, 3),
         !.image_count = 1,
         !.image_usage_flags = {VK_IMAGE_USAGE_SAMPLED_BIT},
         !.requested_compression = VK_IMAGE_COMPRESSION_DISABLED_EXT],
     [BasePreferences EXCEPT !.image_usage_flags = {VK_IMAGE_USAGE_STORAGE_BIT}]}

\* the arguments given along with a predecessor
RecreatePreferences ==
    {q \in PreferencesSet : q.image_usage_flags = BasePreferences.image_usage_flags
                            \/ q.image_count = 10}

\* what the single-axis constructors are given
NewExtents == {Extent(2, 2)}
NewImageCounts == {1}
NewTransforms == {VK_SURFACE_TRANSFORM_ROTATE_90_BIT_KHR}

FromOld_zero_extent(old_swapchain) ==
    [present_mode |-> old_swapchain.properties.present_mode,
     present_mode_priority_list |-> old_swapchain.present_mode_priority_list,
     surface_format_priority_list |-> old_swapchain.surface_format_priority_list,
     extent |-> Extent(0, 0),
     image_count |-> old_swapchain.properties.image_count,
     transform |-> old_swapchain.properties.pre_transform,
     image_usage_flags |-> old_swapchain.image_usage_flags,
     requested_compression |-> old_swapchain.requested_compression,
     requested_compression_fixed_rate |-> old_swapchain.requested_compression_fixed_rate]

\* the arguments a single-axis constructor forwards: the predecessor's properties,
\* lists, usage flags and stored compression
FromOld(old_swapchain) ==
    [present_mode |-> old_swapchain.properties.present_mode,
     present_mode_priority_list |-> old_swapchain.present_mode_priority_list,
     surface_format_priority_list |-> old_swapchain.surface_format_priority_list,
     extent |-> old_swapchain.properties.extent,
     image_count |-> old_swapchain.properties.image_count,
     transform |-> old_swapchain.properties.pre_transform,
     image_usage_flags |-> old_swapchain.image_usage_flags,
     requested_compression |-> old_swapchain.requested_compression,
     requested_compression_fixed_rate |-> old_swapchain.requested_compression_fixed_rate]

\* the first-time constructor forwards its arguments without the compression ones
FirstTimeArguments(given) ==
    [given EXCEPT !.requested_compression = DefaultMembers.requested_compression,
                  !.requested_compression_fixed_rate =
                      DefaultMembers.requested_compression_fixed_rate]

(***************************************************************************)
(* Operations.                                                             *)
(***************************************************************************)
NoCall == [fn |-> "none"]

Init ==
    /\ call = NoCall
    /\ device \in Devices
    /\ caps \in CapsSet
    /\ chains = [i \in ChainIds |-> NoChain]
    /\ native = [h \in Handles |-> [status |-> "unused", destroy_calls |-> 0]]
    /\ last = [op |-> "none", id |-> 0, old |-> 0, outcome |-> "none"]

\* the surface is resized, rotated or moved to another display
\* No constructor has thrown.  Nothing in the class catches an exception, and no
\* operation reads `last`: what can follow a throw is what can follow the state it
\* was thrown in, so a behaviour is not continued past a throw.
Running == last.outcome \in {"none", "ready"}

SurfaceChanged ==
    /\ Running
    /\ \E cp \in CapsSet : cp # caps /\ StaticCaps(cp) = StaticCaps(caps) /\ caps' = cp
    /\ last' = [op |-> "surface_changed", id |-> 0, old |-> 0, outcome |-> "none"]
    /\ UNCHANGED <<call, device, chains, native>>

\* the storage of the next Swapchain object
FreshId(self) ==
    /\ chains[self].state = "none"
    /\ \A i \in ChainIds : i < self => chains[i].state # "none"

\* the handle vkCreateSwapchainKHR writes next
NextHandle(h) ==
    /\ native[h].status = "unused"
    /\ \A g \in Handles : g < h => native[g].status # "unused"

\* a predecessor a caller can recreate from: a live object that still has its surface
Usable(old) == chains[old].state = "alive" /\ chains[old].surface # VK_NULL_HANDLE

\* one run of the constructor that takes a predecessor: op names the public
\* constructor that was called, given its arguments, a what it forwarded
Run(op, self, old, old_handle, given, a) ==
    \E new_handle \in Handles, drv \in DriverAnswers(old_handle, device, a.requested_compression) :
        \E r \in {Construct(new_handle, old_handle, a, caps, device, drv)} :
            /\ Running
            /\ NextHandle(new_handle)
            /\ chains' = IF r.outcome = "ready"
                         THEN [chains EXCEPT ![self] = r.chain]
                         ELSE chains
            /\ native' = IF r.outcome = "ready"
                         THEN [h \in Handles |->
                                  IF h = new_handle
                                  THEN [status |-> "current", destroy_calls |-> 0]
                                  ELSE IF h = old_handle
                                  THEN [native[h] EXCEPT !.status = "retired"]
                                  ELSE native[h]]
                         ELSE native
            /\ last' = [op |-> op, id |-> self, old |-> old, outcome |-> r.outcome,
                        given_compression |->
                            [mode |-> given.requested_compression,
                             fixed_rate |-> given.requested_compression_fixed_rate],
                        image_usage_flags |-> a.image_usage_flags,
                        surface_format |-> r.surface_format,
                        error |-> r.error,
                        calls |-> r.calls,
                        create_info |-> IF r.calls.create_calls = 1
                                        THEN r.create_info
                                        ELSE [none |-> TRUE],
                        applied_fixed_rate |-> drv.applied_fixed_rate]
            /\ UNCHANGED <<call, device, caps>>

\* Swapchain(device, surface, present_mode, ..., requested_compression_fixed_rate)
ConstructFirst ==
    \E self \in ChainIds, given \in PreferencesSet :
        /\ FreshId(self)
        /\ Run("construct", self, 0, DefaultMembers.handle, given, FirstTimeArguments(given))

\* Swapchain(old_swapchain, device, surface, present_mode, ...)
RecreateAll ==
    \E self \in ChainIds, old \in ChainIds, given \in RecreatePreferences :
        /\ FreshId(self)
        /\ Usable(old)
        /\ Run("recreate", self, old, chains[old].handle, given, given)

\* Swapchain(old_swapchain, extent)
RecreateExtent ==
    \E self \in ChainIds, old \in ChainIds, extent \in NewExtents :
        /\ FreshId(self)
        /\ Usable(old)
        /\ LET a == [FromOld(chains[old]) EXCEPT !.extent = extent]
           IN  Run("recreate_extent", self, old, chains[old].handle, a, a)

\* Swapchain(old_swapchain, image_count)
RecreateImageCount ==
    \E self \in ChainIds, old \in ChainIds, image_count \in NewImageCounts :
        /\ FreshId(self)
        /\ Usable(old)
        /\ LET a == [FromOld(chains[old]) EXCEPT !.image_count = image_count]
           IN  Run("recreate_image_count", self, old, chains[old].handle, a, a)

\* Swapchain(old_swapchain, image_usage_flags)
RecreateImageUsage ==
    \E self \in ChainIds, old \in ChainIds, image_usage_flags \in RequestedUsages :
        /\ FreshId(self)
        /\ Usable(old)
        /\ LET a == [FromOld(chains[old]) EXCEPT !.image_usage_flags = image_usage_flags]
           IN  Run("recreate_image_usage", self, old, chains[old].handle, a, a)

\* Swapchain(old_swapchain, extent, transform)
RecreateExtentTransform ==
    \E self \in ChainIds, old \in ChainIds, extent \in {Extent(2, 2)},
       transform \in NewTransforms :
        /\ FreshId(self)
        /\ Usable(old)
        /\ LET a == [FromOld(chains[old]) EXCEPT !.extent = extent, !.transform = transform]
           IN  Run("recreate_extent_transform", self, old, chains[old].handle, a, a)

\* Swapchain(old_swapchain, requested_compression, requested_compression_fixed_rate)
RecreateCompression ==
    \E self \in ChainIds, old \in ChainIds, c \in RequestedCompressions :
        /\ FreshId(self)
        /\ Usable(old)
        /\ LET a == [FromOld(chains[old]) EXCEPT
                        !.requested_compression = c.mode,
                        !.requested_compression_fixed_rate = c.fixed_rate]
           IN  Run("recreate_compression", self, old, chains[old].handle, a, a)

MoveConstruct_keep_source(other) == other

\* what Swapchain(Swapchain &&other) leaves in other
MovedFrom(other) ==
    [other EXCEPT !.surface = VK_NULL_HANDLE,
                  !.handle = VK_NULL_HANDLE,
                  !.images = <<>>,
                  !.properties = DefaultProperties,
                  !.present_mode_priority_list = <<>>,
                  !.surface_format_priority_list = <<>>,
                  !.image_usage_flags = {}]

\* what Swapchain(Swapchain &&other) builds: the compression members are not in
\* its initialiser list
MovedTo(other) ==
    [other EXCEPT !.requested_compression = DefaultMembers.requested_compression,
                  !.requested_compression_fixed_rate =
                      DefaultMembers.requested_compression_fixed_rate]

\* Swapchain(Swapchain &&other)
MoveConstruct ==
    /\ Running
    /\ \E self \in ChainIds, other \in ChainIds :
        /\ FreshId(self)
        /\ chains[other].state = "alive"
        /\ chains' = [chains EXCEPT ![self] = MovedTo(chains[other]),
                                    ![other] = MovedFrom(chains[other])]
        /\ last' = [op |-> "move", id |-> self, old |-> other, outcome |-> "ready"]
        /\ UNCHANGED <<call, device, caps, native>>

\* the test of ~Swapchain
ReleasesHandle(handle) == handle # VK_NULL_HANDLE

\* ~Swapchain()
Destroy ==
    /\ Running
    /\ \E self \in ChainIds :
        /\ chains[self].state = "alive"
        /\ native' = IF ReleasesHandle(chains[self].handle)
                     THEN [native EXCEPT ![chains[self].handle] =
                              [status |-> "destroyed",
                               destroy_calls |-> native[chains[self].handle].destroy_calls + 1]]
                     ELSE native
        /\ chains' = [chains EXCEPT ![self] = NoChain]
        /\ last' = [op |-> "destroy", id |-> self, old |-> 0, outcome |-> "none",
                    handle |-> chains[self].handle]
        /\ UNCHANGED <<call, device, caps>>

Next ==
    \/ SurfaceChanged
    \/ ConstructFirst
    \/ RecreateAll
    \/ RecreateExtent
    \/ RecreateImageCount
    \/ RecreateImageUsage
    \/ RecreateExtentTransform
    \/ RecreateCompression
    \/ MoveConstruct
    \/ Destroy

Spec == Init /\ [][Next]_vars

(***************************************************************************)
(* Calls of the negotiation functions on their own, one call per run.      *)
(***************************************************************************)
CallChooseImageCount ==
    /\ call = NoCall
    /\ \E request \in 0..MaxRequestCount, r \in CountRanges :
        call' = [fn |-> "choose_image_count", request |-> request,
                 min |-> r.min, max |-> r.max,
                 result |-> choose_image_count(request, r.min, r.max)]
    /\ UNCHANGED chainVars

CallChooseExtent ==
    /\ call = NoCall
    /\ \E request \in RequestExtents, e \in ExtentCaps :
        call' = [fn |-> "choose_extent", request |-> request,
                 min |-> e.min, max |-> e.max, current |-> e.current,
                 result |-> choose_extent(request, e.min, e.max, e.current)]
    /\ UNCHANGED chainVars

CallChoosePresentMode ==
    /\ call = NoCall
    /\ \E request \in PresentModes, available \in PresentModeLists,
       priority \in PresentModeLists :
        call' = [fn |-> "choose_present_mode", request |-> request,
                 available |-> available, priority |-> priority,
                 result |-> choose_present_mode(request, available, priority)]
    /\ UNCHANGED chainVars

CallChooseSurfaceFormat ==
    /\ call = NoCall
    /\ \E request \in SurfaceFormats, available \in SurfaceFormatLists \ {<<>>},
       priority \in SurfaceFormatLists :
        call' = [fn |-> "choose_surface_format", request |-> request,
                 available |-> available, priority |-> priority,
                 result |-> choose_surface_format(request, available, priority)]
    /\ UNCHANGED chainVars


(***************************************************************************)
(* PhysicalDevice::get_memory_type (framework/core/physical_device.cpp).   *)
(***************************************************************************)
\* VkMemoryPropertyFlags over two property bits
MemoryPropertyFlags == 0..3

\* VkPhysicalDeviceMemoryProperties: the array has its full size whatever the count
MemoryProperties ==
    [memoryTypeCount : 0..MaxMemoryTypes,
     memoryTypes : [1..MaxMemoryTypes -> [propertyFlags : MemoryPropertyFlags]]]

\* type-bits masks, with one bit above the largest index
TypeBits == 0..(2 ^ (MaxMemoryTypes + 1) - 1)

RECURSIVE MemoryTypeLoop_ignores_bits(_, _, _, _, _)
MemoryTypeLoop_ignores_bits(memory_properties, bits, properties, memory_type_found, i) ==
    IF i >= memory_properties.memoryTypeCount
    THEN IF memory_type_found
         THEN [thrown |-> FALSE, value |-> UINT32_MAX, found |-> FALSE]
         ELSE [thrown |-> TRUE, value |-> 0, found |-> FALSE]
    ELSE IF BitAnd(memory_properties.memoryTypes[i + 1].propertyFlags, properties) = properties
    THEN [thrown |-> FALSE, value |-> i, found |-> memory_type_found]
    ELSE MemoryTypeLoop_ignores_bits(memory_properties, bits \div 2, properties, memory_type_found, i + 1)

RECURSIVE MemoryTypeLoop(_, _, _, _, _)
\* the loop of get_memory_type from index i on, bits being shifted i times, and what
\* follows it; memory_type_found tells whether the caller passed the pointer, and
\* found is what the call leaves in *memory_type_found
MemoryTypeLoop(memory_properties, bits, properties, memory_type_found, i) ==
    IF i >= memory_properties.memoryTypeCount
    THEN IF memory_type_found
         THEN [thrown |-> FALSE, value |-> UINT32_MAX, found |-> FALSE]
         ELSE [thrown |-> TRUE, value |-> 0, found |-> FALSE]
    ELSE IF bits % 2 = 1
            /\ BitAnd(memory_properties.memoryTypes[i + 1].propertyFlags, properties) = properties
    THEN [thrown |-> FALSE, value |-> i, found |-> memory_type_found]
    ELSE MemoryTypeLoop(memory_properties, bits \div 2, properties, memory_type_found, i + 1)

get_memory_type(memory_properties, bits, properties, memory_type_found) ==
    MemoryTypeLoop(memory_properties, bits, properties, memory_type_found, 0)

CallGetMemoryType ==
    /\ call = NoCall
    /\ \E memory_properties \in MemoryProperties, bits \in TypeBits,
          properties \in MemoryPropertyFlags, memory_type_found \in BOOLEAN :
        call' = [fn |-> "get_memory_type", memory_properties |-> memory_properties,
                 bits |-> bits, properties |-> properties,
                 memory_type_found |-> memory_type_found,
                 result |-> get_memory_type(memory_properties, bits, properties,
                                            memory_type_found)]
    /\ UNCHANGED chainVars

\* a run that calls one negotiation function: no surface, no chain
InitCall ==
    /\ call = NoCall
    /\ device \in {d \in Devices : ~d.compression_control}
    /\ caps = BaseCaps
    /\ chains = [i \in ChainIds |-> NoChain]
    /\ native = [h \in Handles |-> [status |-> "unused", destroy_calls |-> 0]]
    /\ last = [op |-> "none", id |-> 0, old |-> 0, outcome |-> "none"]

SpecImageCount == InitCall /\ [][CallChooseImageCount]_vars
SpecExtent == InitCall /\ [][CallChooseExtent]_vars
SpecPresentMode == InitCall /\ [][CallChoosePresentMode]_vars
SpecSurfaceFormat == InitCall /\ [][CallChooseSurfaceFormat]_vars
SpecMemoryType == InitCall /\ [][CallGetMemoryType]_vars

(***************************************************************************)
(* C1..C10                                                                 *)
(***************************************************************************)
\* the indices of the priority-list entries found in the supported list
SupportedPriorityIndices(priority, available) ==
    {i \in 1..Len(priority) : priority[i] \in Range(available)}

\* C1: choose_present_mode returns the request when it is in the supported list,
\* otherwise the first entry of the priority list that is in the supported list,
\* otherwise FIFO; {FIFO}, MAILBOX, [MAILBOX, FIFO] resolves to FIFO.
C1_PresentModeResolution ==
    call.fn = "choose_present_mode" =>
        LET hits == SupportedPriorityIndices(call.priority, call.available)
        IN  /\ call.request \in Range(call.available) => call.result = call.request
            /\ (call.request \notin Range(call.available) /\ hits # {}) =>
                  \E i \in hits : /\ \A j \in hits : i <= j
                                  /\ call.result = call.priority[i]
            /\ (call.request \notin Range(call.available) /\ hits = {}) =>
                  call.result = VK_PRESENT_MODE_FIFO_KHR
            /\ (/\ call.available = <<VK_PRESENT_MODE_FIFO_KHR>>
                /\ call.request = VK_PRESENT_MODE_MAILBOX_KHR
                /\ call.priority = <<VK_PRESENT_MODE_MAILBOX_KHR, VK_PRESENT_MODE_FIFO_KHR>>)
                  => call.result = VK_PRESENT_MODE_FIFO_KHR

\* the scenario of C1: the request is unsupported and the second priority entry is taken
C1_Witness ==
    /\ call.fn = "choose_present_mode"
    /\ call.available = <<VK_PRESENT_MODE_FIFO_KHR>>
    /\ call.request = VK_PRESENT_MODE_MAILBOX_KHR
    /\ call.priority = <<VK_PRESENT_MODE_MAILBOX_KHR, VK_PRESENT_MODE_FIFO_KHR>>
    /\ call.result = VK_PRESENT_MODE_FIFO_KHR

\* C2: choose_surface_format returns the requested pair when it is supported,
\* otherwise the first priority entry whose format and colour space both match a
\* supported entry, otherwise the first supported entry; the result is supported.
C2_SurfaceFormatResolution ==
    call.fn = "choose_surface_format" =>
        LET hits == SupportedPriorityIndices(call.priority, call.available)
        IN  /\ call.result \in Range(call.available)
            /\ call.request \in Range(call.available) => call.result = call.request
            /\ (call.request \notin Range(call.available) /\ hits # {}) =>
                  \E i \in hits : /\ \A j \in hits : i <= j
                                  /\ call.result = call.priority[i]
            /\ (call.request \notin Range(call.available) /\ hits = {}) =>
                  call.result = call.available[1]

\* a priority entry shares its format, but not its colour space, with the first
\* supported entry, and a later supported entry is the one that matches it
C2_Witness ==
    /\ call.fn = "choose_surface_format"
    /\ call.request \notin Range(call.available)
    /\ Len(call.available) = 2
    /\ Len(call.priority) >= 1
    /\ call.priority[1].format = call.available[1].format
    /\ call.priority[1].colorSpace # call.available[1].colorSpace
    /\ call.priority[1] = call.available[2]
    /\ call.result = call.available[2]

\* C4: with a defined current extent the resolved extent lies within [min, max] in
\* each dimension (also when the request has a zero dimension and the current extent
\* is returned); with the undefined current extent the result is the request.
C4_ExtentResolution ==
    call.fn = "choose_extent" =>
        /\ call.current.width # UINT32_MAX =>
              /\ call.min.width <= call.result.width
              /\ call.result.width <= call.max.width
              /\ call.min.height <= call.result.height
              /\ call.result.height <= call.max.height
        /\ call.current.width = UINT32_MAX => call.result = call.request

\* a request below the minimum in one dimension and above the maximum in the other
C4_Witness ==
    /\ call.fn = "choose_extent"
    /\ call.current.width # UINT32_MAX
    /\ call.request.width >= 1
    /\ call.request.width < call.min.width
    /\ call.request.height > call.max.height
    /\ call.result = [width |-> call.min.width, height |-> call.max.height]

\* C5: the resolved image count lies within [min, max] when max is not 0 and is at
\* least min when max is 0; a request in range is returned unchanged; min 2, max 3,
\* request 10 resolves to 3.
C5_ImageCountResolution ==
    call.fn = "choose_image_count" =>
        /\ call.max # 0 => (call.min <= call.result /\ call.result <= call.max)
        /\ call.max = 0 => call.result >= call.min
        /\ (call.request >= call.min /\ (call.max = 0 \/ call.request <= call.max)) =>
              call.result = call.request
        /\ (call.min = 2 /\ call.max = 3 /\ call.request = 10) => call.result = 3

\* the scenario of C5
C5_Witness ==
    /\ call.fn = "choose_image_count"
    /\ call.min = 2 /\ call.max = 3 /\ call.request = 10
    /\ call.result = 3

\* the public constructors that end in vkCreateSwapchainKHR
RecreateOps ==
    {"recreate", "recreate_extent", "recreate_image_count", "recreate_image_usage",
     "recreate_extent_transform", "recreate_compression"}
SingleAxisOps == RecreateOps \ {"recreate"}
ConstructOps == RecreateOps \cup {"construct"}

\* the last operation was a construction that built an object
Built == last.op \in ConstructOps /\ last.outcome = "ready"

\* flag is in the supported usage flags and passes the format-feature rule for the
\* surface format the last construction resolved
UsagePasses(flag) ==
    /\ BitAnd(flag, caps.supportedUsageFlags) # 0
    /\ flag = VK_IMAGE_USAGE_STORAGE_BIT =>
          BitAnd(device.optimalTilingFeatures[last.surface_format.format],
                 VK_FORMAT_FEATURE_STORAGE_IMAGE_BIT) # 0

UsageOrder ==
    <<VK_IMAGE_USAGE_COLOR_ATTACHMENT_BIT, VK_IMAGE_USAGE_STORAGE_BIT,
      VK_IMAGE_USAGE_SAMPLED_BIT, VK_IMAGE_USAGE_TRANSFER_DST_BIT>>

\* every swapchain of the driver that is not destroyed is held by a live object
NoOrphan == \A h \in Handles : native[h].status \in {"current", "retired"} =>
                \E i \in ChainIds : chains[i].state = "alive" /\ chains[i].handle = h

\* nothing of the driver exists for the object of the last construction
NothingCreated ==
    /\ last.calls.create_calls = 0
    /\ chains[last.id].state = "none"
    /\ NoOrphan

\* C3: the usage set a construction resolves holds only flags that are supported and
\* pass the format-feature rule; it is the passing requested flags if there is one,
\* otherwise the first of [color-attachment, storage, sampled, transfer-destination]
\* that passes; if none passes the construction aborts and creates nothing.
C3_ImageUsageResolution ==
    last.op \in ConstructOps =>
        LET requested == {flag \in last.image_usage_flags : UsagePasses(flag)}
            defaults  == {i \in 1..Len(UsageOrder) : UsagePasses(UsageOrder[i])}
        IN  /\ Built =>
                  LET resolved == chains[last.id].image_usage_flags
                  IN  /\ \A flag \in resolved : UsagePasses(flag)
                      /\ requested # {} => resolved = requested
                      /\ requested = {} =>
                            \E i \in defaults : /\ \A j \in defaults : i <= j
                                                /\ resolved = {UsageOrder[i]}
                      /\ chains[last.id].properties.image_usage = BitOrSet(resolved)
            /\ (requested = {} /\ defaults = {}) <=> last.outcome = "no_image_usage"
            /\ last.outcome = "no_image_usage" => NothingCreated

\* no requested flag passes, color-attachment is not supported, and storage is taken
C3_Witness ==
    /\ Built
    /\ \A flag \in last.image_usage_flags : ~UsagePasses(flag)
    /\ last.image_usage_flags # {}
    /\ ~UsagePasses(VK_IMAGE_USAGE_COLOR_ATTACHMENT_BIT)
    /\ chains[last.id].image_usage_flags = {VK_IMAGE_USAGE_STORAGE_BIT}

AlphaOrder ==
    <<VK_COMPOSITE_ALPHA_OPAQUE_BIT_KHR, VK_COMPOSITE_ALPHA_PRE_MULTIPLIED_BIT_KHR,
      VK_COMPOSITE_ALPHA_POST_MULTIPLIED_BIT_KHR, VK_COMPOSITE_ALPHA_INHERIT_BIT_KHR>>

AlphaSupported(bit) == BitAnd(bit, caps.supportedCompositeAlpha) # 0

FormatSupported == chains[last.id].properties.surface_format \in Range(caps.surface_formats)
PresentModeSupported == chains[last.id].properties.present_mode \in Range(caps.present_modes)
TransformSupported ==
    BitAnd(chains[last.id].properties.pre_transform, caps.supportedTransforms) # 0
CompositeAlphaSupported == AlphaSupported(chains[last.id].properties.composite_alpha)
UsageSupported ==
    BitAnd(chains[last.id].properties.image_usage, caps.supportedUsageFlags)
        = chains[last.id].properties.image_usage

\* C7 as stated: after every successful construction or recreation the present mode,
\* the surface format, the pre-transform, the composite alpha and the usage mask are
\* all supported, whatever the surface reports.
C7_Original ==
    Built => /\ PresentModeSupported
             /\ FormatSupported
             /\ TransformSupported
             /\ CompositeAlphaSupported
             /\ UsageSupported

\* C7: after every successful construction or recreation the surface format, the
\* composite alpha and the usage mask are supported; the present mode is supported
\* provided the surface supports FIFO, and the pre-transform bit is supported provided
\* the surface's current transform is.
C7_ResolvedPropertiesSupported ==
    Built => /\ FormatSupported
             /\ CompositeAlphaSupported
             /\ UsageSupported
             /\ chains[last.id].properties.image_usage # 0
             /\ VK_PRESENT_MODE_FIFO_KHR \in Range(caps.present_modes) => PresentModeSupported
             /\ BitAnd(caps.currentTransform, caps.supportedTransforms) # 0
                   => TransformSupported
             /\ ~PresentModeSupported
                   => chains[last.id].properties.present_mode = VK_PRESENT_MODE_FIFO_KHR
             /\ ~TransformSupported
                   => chains[last.id].properties.pre_transform = caps.currentTransform

\* a supported present mode of the priority list is taken for an unsupported request
C7_Witness ==
    /\ Built
    /\ VK_PRESENT_MODE_FIFO_KHR \in Range(caps.present_modes)
    /\ VK_PRESENT_MODE_IMMEDIATE_KHR \notin Range(caps.present_modes)
    /\ chains[last.id].properties.present_mode = VK_PRESENT_MODE_MAILBOX_KHR
    /\ chains[last.id].properties.pre_transform = VK_SURFACE_TRANSFORM_ROTATE_90_BIT_KHR
    /\ TransformSupported

\* a single-axis constructor built an object from a predecessor
BuiltSingleAxis == last.op \in SingleAxisOps /\ last.outcome = "ready"

\* field of the resolved properties is the same in the new object and its predecessor
Same(field) == chains[last.id].properties[field] = chains[last.old].properties[field]

\* the axes the single-axis constructor op changes
ChangedAxes(op) ==
    CASE op = "recreate_extent" -> {"extent"}
      [] op = "recreate_image_count" -> {"image_count"}
      [] op = "recreate_image_usage" -> {"image_usage"}
      [] op = "recreate_extent_transform" -> {"extent", "pre_transform"}
      [] op = "recreate_compression" -> {}

ResolvedAxes ==
    {"image_count", "extent", "surface_format", "array_layers", "image_usage",
     "pre_transform", "composite_alpha", "present_mode"}

\* C8 as stated: a single-axis recreation yields resolved properties that are, except
\* on the changed axis, those of the predecessor.
C8_Original ==
    BuiltSingleAxis => \A field \in ResolvedAxes \ ChangedAxes(last.op) : Same(field)

\* the predecessor's value is still within what the surface reports
StillAdmissible(field) ==
    LET old == chains[last.old].properties
    IN  CASE field = "image_count" ->
                 /\ old.image_count >= caps.minImageCount
                 /\ caps.maxImageCount # 0 => old.image_count <= caps.maxImageCount
          [] field = "extent" ->
                 \/ caps.currentExtent.width = UINT32_MAX
                 \/ /\ old.extent.width >= 1 /\ old.extent.height >= 1
                    /\ caps.minImageExtent.width <= old.extent.width
                    /\ old.extent.width <= caps.maxImageExtent.width
                    /\ caps.minImageExtent.height <= old.extent.height
                    /\ old.extent.height <= caps.maxImageExtent.height
          [] field = "pre_transform" ->
                 BitAnd(old.pre_transform, caps.supportedTransforms) # 0
          [] OTHER -> TRUE

\* C8: a single-axis recreation resolves the predecessor's properties again, against
\* what the surface reports at that time: a resolved property other than the changed
\* axis is the predecessor's whenever the predecessor's image count and extent are
\* still within the reported limits and its pre-transform is still supported (the
\* surface keeping its formats, present modes, usage and composite-alpha flags).
C8_SingleAxisRecreation ==
    BuiltSingleAxis =>
        \A field \in ResolvedAxes \ ChangedAxes(last.op) :
            StillAdmissible(field) => Same(field)

\* a new image count is the only difference between the object and its predecessor
C8_Witness ==
    /\ last.op = "recreate_image_count"
    /\ last.outcome = "ready"
    /\ ~Same("image_count")
    /\ \A field \in ResolvedAxes \ {"image_count"} : Same(field)
    /\ chains[last.old].properties.extent = Extent(2, 2)

\* the live objects that hold handle h
Holders(h) == {i \in ChainIds : chains[i].state = "alive" /\ chains[i].handle = h}

C9_Owned ==
    /\ \A h \in Handles :
          /\ Cardinality(Holders(h)) <= 1
          /\ native[h].destroy_calls <= 1
          /\ Holders(h) # {} => native[h].status \in {"current", "retired"}
    /\ last.op = "move" =>
          /\ chains[last.old].handle = VK_NULL_HANDLE
          /\ chains[last.old].surface = VK_NULL_HANDLE

C9_Release ==
    \A i \in ChainIds :
        /\ (chains[i].state = "alive" /\ last'.op = "destroy" /\ last'.id = i) =>
              /\ chains[i].handle = VK_NULL_HANDLE => native' = native
              /\ chains[i].handle # VK_NULL_HANDLE =>
                    /\ native'[chains[i].handle].destroy_calls = 1
                    /\ \A h \in Handles \ {chains[i].handle} : native'[h] = native[h]
        /\ (chains[i].state = "none" /\ chains'[i].state = "alive" /\ last'.op = "move") =>
              /\ chains'[i].handle = chains[last'.old].handle
              /\ chains'[i].surface = chains[last'.old].surface
              /\ native' = native

\* C9: every native handle is held by at most one live object and is released at most
\* once; a move leaves its source with a null handle and a null surface; destroying a
\* moved-from object releases nothing.
C9_ExclusiveOwnership == []C9_Owned /\ [][C9_Release]_vars

\* a moved-from object has been destroyed and the handle it had is still unreleased
C9_Witness ==
    /\ last.op = "destroy"
    /\ last.handle = VK_NULL_HANDLE
    /\ \E i \in ChainIds : /\ chains[i].state = "alive"
                           /\ chains[i].handle # VK_NULL_HANDLE
                           /\ native[chains[i].handle].status = "current"
                           /\ native[chains[i].handle].destroy_calls = 0

C10_Hint ==
    (last.op \in ConstructOps /\ last.calls.create_calls = 1) =>
        /\ last.op = "construct" => last.create_info.oldSwapchain = VK_NULL_HANDLE
        /\ last.op \in RecreateOps =>
              /\ last.create_info.oldSwapchain = chains[last.old].handle
              /\ last.create_info.oldSwapchain # VK_NULL_HANDLE

C10_Independent ==
    /\ last'.op \in RecreateOps =>
          /\ chains'[last'.old] = chains[last'.old]
          /\ native'[chains[last'.old].handle].destroy_calls
                = native[chains[last'.old].handle].destroy_calls
          /\ native'[chains[last'.old].handle].status # "destroyed"
    /\ \A h \in Handles :
          native'[h].destroy_calls # native[h].destroy_calls =>
              \E i \in ChainIds : /\ chains[i].state = "alive"
                                  /\ chains[i].handle = h
                                  /\ last'.op = "destroy"
                                  /\ last'.id = i

\* C10: the creation descriptor's oldSwapchain is the null handle for a first-time
\* construction and the predecessor's handle for every recreation; a recreation leaves
\* the predecessor's handle, images and resolved properties as they were, and a native
\* swapchain is released only when the object that holds it is destroyed.
C10_ReplacementHint == []C10_Hint /\ [][C10_Independent]_vars

\* a recreation gave its predecessor's handle as the hint; the predecessor is intact
C10_Witness ==
    /\ last.op \in RecreateOps
    /\ last.outcome = "ready"
    /\ last.create_info.oldSwapchain = chains[last.old].handle
    /\ chains[last.old].state = "alive"
    /\ Len(chains[last.old].images) = chains[last.old].properties.image_count
    /\ native[chains[last.old].handle].status = "retired"
    /\ native[chains[last.old].handle].destroy_calls = 0

\* the compression settings the last construction left in its object
StoredMode == chains[last.id].requested_compression
StoredFixedRate == chains[last.id].requested_compression_fixed_rate

\* C11: on a device without the compression-control extension a construction whose
\* creation call succeeds is ready, attaches no compression control to the creation
\* descriptor and stores the default mode; a request other than default is stored as
\* default with fixed-rate flags none.
C11_CompressionDowngrade ==
    (last.op \in ConstructOps /\ ~device.compression_control) =>
        /\ last.calls.create_calls = 1 => ~last.create_info.pNext.attached
        /\ (last.calls.create_calls = 1 /\ last.calls.result = VK_SUCCESS) => Built
        /\ Built =>
              /\ StoredMode = VK_IMAGE_COMPRESSION_DEFAULT_EXT
              /\ last.given_compression.mode # VK_IMAGE_COMPRESSION_DEFAULT_EXT =>
                    StoredFixedRate = VK_IMAGE_COMPRESSION_FIXED_RATE_NONE_EXT

\* a recreation asked for fixed-rate compression on a device without the extension
C11_Witness ==
    /\ last.op \in {"recreate", "recreate_compression"}
    /\ Built
    /\ ~device.compression_control
    /\ last.given_compression.mode = VK_IMAGE_COMPRESSION_FIXED_RATE_EXPLICIT_EXT
    /\ last.given_compression.fixed_rate # VK_IMAGE_COMPRESSION_FIXED_RATE_NONE_EXT
    /\ StoredMode = VK_IMAGE_COMPRESSION_DEFAULT_EXT
    /\ StoredFixedRate = VK_IMAGE_COMPRESSION_FIXED_RATE_NONE_EXT

\* C12: a construction ends ready, with a non-null handle the driver knows and the
\* images of that handle, or raises an error and leaves no object; a creation call
\* that does not return VK_SUCCESS is made once, raises a VulkanException carrying the
\* returned code and leaves no native swapchain; no native swapchain is without a
\* holder.
C12_ConstructionOutcome ==
    /\ NoOrphan
    /\ last.op \in ConstructOps =>
          /\ last.calls.create_calls <= 1
          /\ Built <=> last.error.type = "none"
          /\ Built =>
                /\ last.calls.create_calls = 1
                /\ last.calls.result = VK_SUCCESS
                /\ chains[last.id].state = "alive"
                /\ chains[last.id].handle # VK_NULL_HANDLE
                /\ native[chains[last.id].handle].status = "current"
                /\ chains[last.id].images # <<>>
                /\ \A k \in 1..Len(chains[last.id].images) :
                      chains[last.id].images[k].swapchain = chains[last.id].handle
          /\ ~Built => chains[last.id].state = "none"
          /\ (last.calls.create_calls = 1 /\ last.calls.result # VK_SUCCESS) =>
                /\ last.outcome = "create_failed"
                /\ last.error = [type |-> "VulkanException", result |-> last.calls.result]
          /\ last.outcome = "create_failed" => last.calls.result # VK_SUCCESS

\* a recreation whose creation call ran out of device memory: the error carries the
\* code and the predecessor still holds the surface's swapchain
C12_Witness ==
    /\ last.op \in RecreateOps
    /\ last.outcome = "create_failed"
    /\ last.calls.create_calls = 1
    /\ last.error.result = VK_ERROR_OUT_OF_DEVICE_MEMORY
    /\ chains[last.id].state = "none"
    /\ native[chains[last.old].handle].status = "current"

\* the indices below memoryTypeCount whose bit is set in the mask of the last call and
\* whose property flags include all the required ones
MatchingTypes ==
    {i \in 0..(call.memory_properties.memoryTypeCount - 1) :
        /\ (call.bits \div (2 ^ i)) % 2 = 1
        /\ \A b \in {1, 2} :
              BitAnd(call.properties, b) # 0 =>
                  BitAnd(call.memory_properties.memoryTypes[i + 1].propertyFlags, b) # 0}

\* C13: get_memory_type returns the lowest index below the memory-type count whose bit
\* is set in the mask and whose flags include the required ones, setting a supplied
\* found flag; when there is none it returns the all-ones value with the found flag
\* false if the flag was supplied, and raises an error if it was not.
C13_MemoryTypeLookup ==
    call.fn = "get_memory_type" =>
        /\ MatchingTypes # {} =>
              /\ ~call.result.thrown
              /\ call.result.value \in MatchingTypes
              /\ \A i \in MatchingTypes : call.result.value <= i
              /\ call.memory_type_found => call.result.found
        /\ (MatchingTypes = {} /\ call.memory_type_found) =>
              /\ ~call.result.thrown
              /\ call.result.value = UINT32_MAX
              /\ ~call.result.found
        /\ (MatchingTypes = {} /\ ~call.memory_type_found) => call.result.thrown

\* the lowest type of the mask lacks a required flag and a higher one is returned, an
\* entry beyond the count being left aside
C13_Witness ==
    /\ call.fn = "get_memory_type"
    /\ call.memory_properties.memoryTypeCount = 2
    /\ call.bits = 7
    /\ call.properties = 2
    /\ call.memory_properties.memoryTypes[1].propertyFlags = 1
    /\ call.memory_properties.memoryTypes[2].propertyFlags = 3
    /\ call.memory_type_found
    /\ call.result = [thrown |-> FALSE, value |-> 1, found |-> TRUE]

\* C14: a first-time construction on a device with the compression-control extension
\* attaches the compression mode and fixed-rate flags its caller passed to the creation
\* descriptor, and stores them in the object (the fixed-rate ones as applied).
C14_FirstTimeCompression ==
    (last.op = "construct" /\ device.compression_control /\ last.calls.create_calls = 1) =>
        /\ last.create_info.pNext.attached
        /\ last.create_info.pNext.flags = last.given_compression.mode
        /\ last.given_compression.mode = VK_IMAGE_COMPRESSION_FIXED_RATE_EXPLICIT_EXT =>
              last.create_info.pNext.fixedRateFlags = last.given_compression.fixed_rate
        /\ (Built /\ last.given_compression.mode # VK_IMAGE_COMPRESSION_FIXED_RATE_EXPLICIT_EXT) =>
              StoredMode = last.given_compression.mode

\* the last operation was a recreation that asked for fixed-rate explicit compression
\* on a device with the compression-control extension
VerifiedRecreation ==
    /\ last.op \in RecreateOps
    /\ Built
    /\ device.compression_control
    /\ last.given_compression.mode = VK_IMAGE_COMPRESSION_FIXED_RATE_EXPLICIT_EXT

\* C15: after a successful construction that received a fixed-rate explicit request on
\* a device with the extension, the stored fixed-rate flags are the ones the driver
\* applied to the first image; the stored mode is default exactly when the applied
\* flags are none and differ from the requested ones, and the requested mode
\* otherwise.  Without such a request, or without the extension, the applied
\* compression is not queried.
C15_CompressionVerification ==
    /\ VerifiedRecreation =>
          /\ last.calls.query_calls = 1
          /\ StoredFixedRate = last.applied_fixed_rate
          /\ StoredMode = VK_IMAGE_COMPRESSION_DEFAULT_EXT <=>
                /\ last.applied_fixed_rate = VK_IMAGE_COMPRESSION_FIXED_RATE_NONE_EXT
                /\ last.applied_fixed_rate # last.given_compression.fixed_rate
          /\ StoredMode # VK_IMAGE_COMPRESSION_DEFAULT_EXT =>
                StoredMode = last.given_compression.mode
    /\ (/\ last.op \in ConstructOps
        /\ \/ ~device.compression_control
           \/ last.given_compression.mode # VK_IMAGE_COMPRESSION_FIXED_RATE_EXPLICIT_EXT)
          => last.calls.query_calls = 0

\* the driver applied no fixed rate where one was requested: the stored mode is default
C15_Witness ==
    /\ VerifiedRecreation
    /\ last.given_compression.fixed_rate # VK_IMAGE_COMPRESSION_FIXED_RATE_NONE_EXT
    /\ last.applied_fixed_rate = VK_IMAGE_COMPRESSION_FIXED_RATE_NONE_EXT
    /\ StoredMode = VK_IMAGE_COMPRESSION_DEFAULT_EXT
    /\ StoredFixedRate = VK_IMAGE_COMPRESSION_FIXED_RATE_NONE_EXT

\* what a move has to carry over
TransferredFields ==
    {"handle", "surface", "images", "properties", "present_mode_priority_list",
     "surface_format_priority_list", "image_usage_flags", "requested_compression",
     "requested_compression_fixed_rate"}

C16_Move ==
    \A i \in ChainIds :
        (chains[i].state = "none" /\ chains'[i].state = "alive" /\ last'.op = "move") =>
            /\ \A field \in TransferredFields : chains'[i][field] = chains[last'.old][field]
            /\ FromOld(chains'[i]) = FromOld(chains[last'.old])

\* C16: a move gives its destination the source's handle, surface, images, resolved
\* properties, priority lists, usage flags and stored compression mode and fixed-rate
\* flags as they were before the move, so that a recreation from the destination
\* forwards what a recreation from the source would have.
C16_MoveTransfersState == [][C16_Move]_vars

====
